---- MODULE Spec2Model ----
(***************************************************************************)
(* Editor discovery and command dispatch of vscode-defold-buddy:           *)
(* DefoldEditor.call (defold-editor.ts) and the hot-reload triggers         *)
(* (commands/editor-hot-reload-command.ts).                                 *)
(*                                                                         *)
(* Every `await` of the source is a suspension point, so every action      *)
(* below is the code that runs between two awaits of one invocation.       *)
(* Several invocations (one per save event or command) interleave at       *)
(* these points and share the persisted port (globalState).                *)
(***************************************************************************)
EXTENDS Integers, Sequences, FiniteSets, TLC

\* ---------------------------------------------------------------- bounds
NumCalls == 2          \* trigger events whose flows may interleave
MaxLogLen == 2         \* lines of the log file
MaxRetries == 1        \* times the user supplies a port at the prompt in one call
MaxEnvChanges == 1     \* times an editor starts or stops during the run

Procs == 1..NumCalls

\* ---------------------------------------------------------------- values
Undefined == "undefined"                \* JavaScript undefined
Empty == ""                             \* the empty string
Ports == {"9000", "9010"}               \* port strings

\* JavaScript truthiness of a string | undefined value (the `!x` tests).
Falsy(x) == x \in {Undefined, Empty}

\* A property read on an object: undefined when the object has no such field.
Field(obj, name) == IF name \in DOMAIN obj THEN obj[name] ELSE Undefined

\* ------------------------------------------------------------------ HTTP
\* What one HTTP request ends in: a response with a status, or axios throwing
\* (network error, timeout).
Statuses == {100, 199, 200, 204, 299, 300, 404, 500}
Response(s) == [kind |-> "response", status |-> s]
NetworkError == [kind |-> "error", status |-> 0]
Timeout == [kind |-> "timeout", status |-> 0]
NoRequest == [kind |-> "none", status |-> 0]
Outcomes == {Response(s) : s \in Statuses} \cup {NetworkError, Timeout}

Is2xx_OffByOne(status) == status >= 200 /\ status <= 300
\* response.status >= 200 && response.status < 300
Is2xx(status) == status >= 200 /\ status < 300

\* try { ... return 2xx } catch { return false }
isDefoldEditorRunning(outcome) ==
    IF outcome.kind = "response" THEN Is2xx(outcome.status) ELSE FALSE

executeCommandInDefoldEditor(outcome) ==
    IF outcome.kind = "response" THEN Is2xx(outcome.status) ELSE FALSE

\* What a GET of /command/ on port p can end in, given the ports on which an
\* editor currently runs.
GetOutcomes(p, run) ==
    IF p \in run THEN {Response(200), Response(204)}
    ELSE {Response(404), Response(500), NetworkError, Timeout}

\* ------------------------------------------------------------- log files
ThreadMarker == "[JavaFX Application Thread]"
SubsystemMarker == "util.http-server"
MsgMarker == ":msg \"Http server running\""

\* A log line: the markers it contains and the ports of the substrings of it
\* that match :local-url "http://<host>:<port>", in order.
Line(markers, urls) == [markers |-> markers, urls |-> urls]
Announce(p) == Line({ThreadMarker, SubsystemMarker, MsgMarker}, <<p>>)
LogLines == {Announce(p) : p \in Ports}

RECURSIVE SeqsUpTo(_, _)
SeqsUpTo(S, n) ==
    IF n = 0 THEN {<<>>}
    ELSE LET shorter == SeqsUpTo(S, n - 1)
         IN shorter \cup {Append(s, x) : s \in {t \in shorter : Len(t) = n - 1}, x \in S}

Reverse(s) == [k \in 1..Len(s) |-> s[Len(s) + 1 - k]]

LinePorts_NoThreadTest(line) ==
    IF SubsystemMarker \in line.markers /\ MsgMarker \in line.markers
    THEN (IF Len(line.urls) > 0 THEN <<line.urls[1]>> ELSE <<>>)
    ELSE <<>>

\* The rl.on('line') handler: the ports this line pushes onto result.
LinePorts(line) ==
    IF ThreadMarker \notin line.markers THEN <<>>
    ELSE IF SubsystemMarker \in line.markers /\ MsgMarker \in line.markers
         THEN (IF Len(line.urls) > 0 THEN <<line.urls[1]>> ELSE <<>>)
         ELSE <<>>

RECURSIVE PushedPorts(_)
PushedPorts(lines) ==
    IF lines = <<>> THEN <<>>
    ELSE LinePorts(Head(lines)) \o PushedPorts(Tail(lines))

extractEditorPortsFrom_NoReverse(lines) == PushedPorts(lines)
\* return result.reverse()
extractEditorPortsFrom(lines) == Reverse(PushedPorts(lines))

NoLogFile == [found |-> FALSE, lines |-> <<>>]
LogFiles == {NoLogFile} \cup {[found |-> TRUE, lines |-> l] : l \in SeqsUpTo(LogLines, MaxLogLen)}

\* --------------------------------------------------------------- triggers
Chars(ext) ==
    CASE ext = ".script" -> <<".", "s", "c", "r", "i", "p", "t">>
      [] ext = ".lua" -> <<".", "l", "u", "a">>
      [] ext = ".gui_script" -> <<".", "g", "u", "i", "_", "s", "c", "r", "i", "p", "t">>
      [] ext = ".ts" -> <<".", "t", "s">>
      [] ext = ".txt" -> <<".", "t", "x", "t">>

fileExtensionsThatTriggerHotReload == {Chars(".script"), Chars(".lua"), Chars(".gui_script"), Chars(".ts")}

endsWith(name, suffix) ==
    /\ Len(name) >= Len(suffix)
    /\ SubSeq(name, Len(name) - Len(suffix) + 1, Len(name)) = suffix

NoDocument == <<>>
Documents == {<<"a">> \o Chars(".ts"), <<"a">> \o Chars(".script"), <<"a">> \o Chars(".txt")}

\* ---------------------------------------------------------------- state
VARIABLES
    call,        \* per flow: the position and the locals of the invocation
    hist,        \* per flow: what it has done so far (history)
    cache,       \* globalState['defoldEditorPort']
    running,     \* ports on which an editor answers now
    envChanges,  \* editor starts/stops so far
    logFile,     \* the most recent log file
    lastWriter,  \* the flow whose savePort ran last (0: none yet)
    http         \* one HTTP request followed from axios to the boolean returned

vars == <<call, hist, cache, running, envChanges, logFile, lastWriter, http>>

doNotRetryBuildingProject == [retry |-> FALSE]

NoHttp == [phase |-> "idle", method |-> "none", port |-> Undefined,
           command |-> "none", outcome |-> NoRequest, returned |-> "pending"]

\* The default of the detectPort parameter.
DefaultDetectPort_Off == FALSE
DefaultDetectPort == TRUE

InitCall ==
    [pc |-> "idle",
     showRunningDefoldEditorNotFoundWindow |-> TRUE,
     detectPort |-> DefaultDetectPort,
     savedPort |-> Undefined,
     portOfRunningEditor |-> Undefined,
     foundPorts |-> <<>>,
     result |-> doNotRetryBuildingProject,
     saved |-> "port",        \* which savePort the flow waits for: line 62 or line 66
     ret |-> "pending"]

InitHist ==
    [trigger |-> "none",
     document |-> NoDocument,
     slept |-> FALSE,
     invocations |-> 0,       \* invocations of tryToFindRunningEditorAndExecuteCommand
     probedLive |-> {},       \* ports probed live in the current invocation
     posted |-> Undefined,    \* port the command was POSTed to
     cacheProbes |-> 0,       \* probes of the stored port
     runProbes |-> 0,         \* probes before the dispatch
     posts |-> 0,             \* POSTs of the command
     cacheHit |-> {},         \* invocations whose cache lookup returned a port
     locates |-> 0,           \* calls of findRecentLogFile
     scans |-> 0,             \* calls of extractEditorPortsFrom
     scanInvocation |-> 0,    \* invocation that called tryToFindEditorPortFromLogFiles
     scanProbes |-> <<>>,     \* answers of the probes of the scan loop, in order
     scanned |-> FALSE,       \* the scan loop has run to its return
     stale |-> Undefined,     \* stored port that failed the probe of the first lookup
     writes |-> <<>>,         \* values this flow passed to savePort, in order
     prompts |-> 0,           \* times the not-found prompt was shown
     inputs |-> 0,            \* times the port input box was shown
     userPorts |-> <<>>,      \* ports the user supplied, in order
     promptFailed |-> FALSE,  \* the prompt, the input box or the launch rejected
     logFailed |-> FALSE,     \* fs.open rejected
     readFailed |-> FALSE,    \* the read of the log rejected
     replaced |-> Undefined,  \* what storage held when the last write of the call replaced it
     errorShown |-> FALSE]    \* showErrorMessage was called

Init ==
    /\ call = [i \in Procs |-> InitCall]
    /\ hist = [i \in Procs |-> InitHist]
    /\ cache \in Ports \cup {Undefined}
    /\ running \in SUBSET Ports
    /\ envChanges = 0
    /\ logFile \in LogFiles
    /\ lastWriter = 0
    /\ http = NoHttp


\* ---------------------------------------------------------------- helpers
Returned(b) == IF b THEN "true" ELSE "false"

\* An async function never throws to its caller: a failure inside it is a
\* rejection of the promise it returns.
AsyncFailure == "rejected"
\* try { return f() } catch { ... } without await: catches what f throws
\* while it is being called, not a rejection of the promise it returned.
Catches(failure) == failure = "thrown"

\* if (!portOfRunningEditor && detectPort)
ShouldDetect_IgnoringPort(port, detectPort) == detectPort
ShouldDetect(port, detectPort) == Falsy(port) /\ detectPort

\* if (!portOfRunningEditor && this.showRunningDefoldEditorNotFoundWindow)
ShouldAsk_IgnoringFlag(port, show) == Falsy(port)
ShouldAsk(port, show) == Falsy(port) /\ show

\* savePort(context, editorPort): the value globalState holds afterwards.
savePort_KeepWhenAbsent(stored, editorPort) == IF Falsy(editorPort) THEN stored ELSE editorPort
savePort_FirstWriteWins(stored, editorPort) == IF Falsy(stored) THEN editorPort ELSE stored
savePort(stored, editorPort) == editorPort

\* tryToFindRunningEditorAndExecuteCommand(command, false /* do not detect port */)
RetryDetectPort_Rescan == TRUE
RetryDetectPort == FALSE

\* executeCommandInDefoldEditor(portOfRunningEditor!, command)
DispatchTarget_Stored(i) == cache
DispatchTarget(i) == call[i].portOfRunningEditor

PostOutcomes(p, run) ==
    IF p \in run THEN Outcomes
    ELSE {Response(404), Response(500), NetworkError, Timeout}

\* if (savedPort && await isDefoldEditorRunning(savedPort)) { return savedPort }
\* else { return undefined }
SavedPortResult_Unprobed(savedPort, live) == savedPort
SavedPortResult(savedPort, live) == IF live THEN savedPort ELSE Undefined

\* Where the invocation goes once getSavedPortOfRunningEditor has returned.
AfterLookup(port, detectPort) == IF ShouldDetect(port, detectPort) THEN "findLog" ELSE "save"

\* editor.showRunningDefoldEditorNotFoundWindow = false: the value assigned.
SaveShowsNotFoundWindow == FALSE

\* const editor = new DefoldEditor(context); editor.show... = v: the flag is
\* a field of the editor object that this event has just created.
SetNotFoundWindow(c, i, v) ==
    [c EXCEPT ![i].showRunningDefoldEditorNotFoundWindow = v]

\* if (document.fileName.endsWith('.ts')) { await sleep(300) }
NeedsGracePeriod_Never(document) == FALSE
NeedsGracePeriod(document) == endsWith(document, Chars(".ts"))

\* ------------------------------------------------------------ resolution
\* Flow i goes on to position target with the records c and h, and makes the
\* call it waits for there (the probe, the search for the log file). Going on to
\* "save" is the call of savePort(this.context, portOfRunningEditor) at line
\* 62: globalState.update is called at once, in the step that got there, and
\* the flow then waits for its promise.
Continue(i, c, h, target) ==
    IF target = "save"
    THEN /\ call' = [c EXCEPT ![i].pc = "save", ![i].saved = "port"]
         /\ hist' = [h EXCEPT ![i].writes = Append(@, c[i].portOfRunningEditor),
                              ![i].replaced = cache]
         /\ cache' = savePort(cache, c[i].portOfRunningEditor)
         /\ lastWriter' = i
    ELSE /\ call' = [c EXCEPT ![i].pc = target]
         /\ hist' = [h EXCEPT
              ![i].cacheProbes = IF target = "probeSaved" THEN @ + 1 ELSE @,
              ![i].locates = IF target = "findLog" THEN @ + 1 ELSE @,
              ![i].runProbes = IF target = "checkRunning" THEN @ + 1 ELSE @]
         /\ UNCHANGED <<cache, lastWriter>>

\* The flow ends with call() returning false.
ReturnFalse(i, c, h) == Continue(i, [c EXCEPT ![i].ret = Returned(FALSE)], h, "done")

\* Entry of tryToFindRunningEditorAndExecuteCommand: line 58 calls
\* getSavedPortOfRunningEditor, whose line 94 reads the stored port with
\* globalState.get and waits for it. The value is the one stored at the call.
tryToFindRunningEditorAndExecuteCommand(i, c, h) ==
    LET savedPort == IF cache = Undefined THEN Empty ELSE cache
        c2 == [c EXCEPT ![i].savedPort = savedPort,
                        ![i].portOfRunningEditor = Undefined]
        h2 == [h EXCEPT ![i].invocations = @ + 1, ![i].probedLive = {}]
    IN Continue(i, c2, h2, "getSaved")

\* ---------------------------------------------------------------- triggers
\* await editor.executeCommand(EditorCommand.hotReload): the editor object
\* has no member executeCommand (the class defines call), so the call throws
\* a TypeError, which rejects the promise of the async handler.
TypeError == "TypeError"
executeCommand(c, i) == [c EXCEPT ![i].pc = "done", ![i].ret = TypeError]

\* vscode.workspace.onDidSaveTextDocument(async (document) => ...)
onDidSaveTextDocument(i, document) ==
    /\ call[i].pc = "idle"
    /\ IF \E ext \in fileExtensionsThatTriggerHotReload : endsWith(document, ext)
       THEN LET c == SetNotFoundWindow(call, i, SaveShowsNotFoundWindow)
            IN call' = IF NeedsGracePeriod(document)
                       THEN [c EXCEPT ![i].pc = "sleep"]
                       ELSE executeCommand(c, i)
       ELSE call' = [call EXCEPT ![i].pc = "done", ![i].ret = "nocall"]
    /\ hist' = [hist EXCEPT ![i].trigger = "save", ![i].document = document]
    /\ UNCHANGED <<cache, running, envChanges, logFile, lastWriter, http>>

\* await sleep(300); await editor.executeCommand(EditorCommand.hotReload)
sleep(i) ==
    /\ call[i].pc = "sleep"
    /\ call' = executeCommand(call, i)
    /\ hist' = [hist EXCEPT ![i].slept = TRUE]
    /\ UNCHANGED <<cache, running, envChanges, logFile, lastWriter, http>>

\* registerCommand('vscode-defold-ide.hotReload', async () => ...)
hotReloadCommand(i) ==
    /\ call[i].pc = "idle"
    /\ call' = executeCommand(call, i)
    /\ hist' = [hist EXCEPT ![i].trigger = "manual"]
    /\ UNCHANGED <<cache, running, envChanges, logFile, lastWriter, http>>

\* DefoldEditor.call(command) on an editor object its caller has just
\* created; showWindow is the value of the public field
\* showRunningDefoldEditorNotFoundWindow at the call. The step runs up to
\* the first wait of the resolution.
DefoldEditor_call(i, showWindow) ==
    /\ call[i].pc = "idle"
    /\ tryToFindRunningEditorAndExecuteCommand(i,
          SetNotFoundWindow(call, i, showWindow),
          [hist EXCEPT ![i].trigger = "call"])
    /\ UNCHANGED <<running, envChanges, logFile, http>>

\* ------------------------------------------------------------- the lookup
\* const savedPort = await context.globalState.get(...): the read has
\* answered. With a stored port line 96 calls the probe; with none the lookup
\* returns undefined and lines 59-62 run on to their first wait, the search
\* for the log file or the write of line 62.
getSavedPortOfRunningEditor(i) ==
    /\ call[i].pc = "getSaved"
    /\ Continue(i, call, hist,
          IF Falsy(call[i].savedPort)
          THEN AfterLookup(Undefined, call[i].detectPort)
          ELSE "probeSaved")
    /\ UNCHANGED <<running, envChanges, logFile, http>>

\* savedPort && await isDefoldEditorRunning(savedPort): the answer of the probe
probeSavedPort(i) ==
    /\ call[i].pc = "probeSaved"
    /\ \E o \in GetOutcomes(call[i].savedPort, running) :
         LET live == isDefoldEditorRunning(o)
             port == SavedPortResult(call[i].savedPort, live)
         IN Continue(i,
               [call EXCEPT ![i].portOfRunningEditor = port],
               [hist EXCEPT
                 ![i].probedLive = IF live THEN @ \cup {call[i].savedPort} ELSE @,
                 ![i].cacheHit = IF live THEN @ \cup {hist[i].invocations} ELSE @,
                 ![i].stale = IF ~live /\ hist[i].invocations = 1
                              THEN call[i].savedPort ELSE @],
               AfterLookup(port, call[i].detectPort))
    /\ UNCHANGED <<running, envChanges, logFile, http>>

\* tryToFindEditorPortFromLogFiles: the answer of repo.findRecentLogFile();
\* with a file found, extractEditorPortsFrom is called and calls fs.open.
findRecentLogFile(i) ==
    /\ call[i].pc = "findLog"
    /\ Continue(i, call,
          [hist EXCEPT ![i].scans = IF logFile.found THEN @ + 1 ELSE @,
                       ![i].scanInvocation = hist[i].invocations,
                       ![i].scanProbes = <<>>,
                       ![i].scanned = FALSE],
          IF logFile.found THEN "openLog" ELSE "save")
    /\ UNCHANGED <<running, envChanges, logFile, http>>

\* The invocation ends with the promise of call() rejected: nothing between
\* the failing await and the caller of call() catches.
Reject(i) == [call EXCEPT ![i].ret = AsyncFailure, ![i].pc = "done"]

\* extractEditorPortsFrom(recentLogFile): const file = await fs.open(logFile, 'r')
openLogFile(i) ==
    /\ call[i].pc = "openLog"
    /\ \E opened \in BOOLEAN :
         IF opened
         THEN /\ call' = [call EXCEPT ![i].pc = "readLog"]
              /\ UNCHANGED hist
         ELSE /\ call' = Reject(i)
              /\ hist' = [hist EXCEPT ![i].logFailed = TRUE]
    /\ UNCHANGED <<cache, running, envChanges, logFile, lastWriter, http>>

\* The ports the for-await loop has still to visit once it has visited one.
RestOfPorts_Stuck(ports) == ports
RestOfPorts(ports) == Tail(ports)

\* for await (const port of foundPorts): with ports left the loop probes the
\* first of them; with none left tryToFindEditorPortFromLogFiles returns
\* undefined, which line 62 saves.
LoopOver(i, c, h, ports) ==
    IF ports = <<>>
    THEN Continue(i, [c EXCEPT ![i].foundPorts = ports],
                     [h EXCEPT ![i].scanned = TRUE], "save")
    ELSE Continue(i, [c EXCEPT ![i].foundPorts = ports], h, "scanLoop")

\* extractEditorPortsFrom(recentLogFile): the lines read up to
\* await once(rl, 'close'), and return result.reverse(); the wait rejects
\* when the read stream fails.
readLogFile(i) ==
    /\ call[i].pc = "readLog"
    /\ \E readable \in BOOLEAN :
         IF readable
         THEN LoopOver(i, call, hist, extractEditorPortsFrom(logFile.lines))
         ELSE /\ call' = Reject(i)
              /\ hist' = [hist EXCEPT ![i].readFailed = TRUE]
              /\ UNCHANGED <<cache, lastWriter>>
    /\ UNCHANGED <<running, envChanges, logFile, http>>

\* if (await isDefoldEditorRunning(port)) { return port }: the answer of the
\* probe of the port the loop is at
scanLoop(i) ==
    /\ call[i].pc = "scanLoop"
    /\ \E o \in GetOutcomes(Head(call[i].foundPorts), running) :
         LET port == Head(call[i].foundPorts)
             live == isDefoldEditorRunning(o)
             h == [hist EXCEPT ![i].probedLive = IF live THEN @ \cup {port} ELSE @,
                               ![i].scanProbes = Append(@, live),
                               ![i].scanned = live]
         IN IF live
            THEN Continue(i, [call EXCEPT ![i].portOfRunningEditor = port], h, "save")
            ELSE LoopOver(i, call, h, RestOfPorts(call[i].foundPorts))
    /\ UNCHANGED <<running, envChanges, logFile, http>>

\* ----------------------------------------------------- interactive fallback
Answers == {"Open Defold", "Input Port", "Cancel", Undefined}
PortInputs == Ports \cup {Empty, Undefined}

\* result.portFromUser, read from the object the prompt returned.
PortFromUser_FromPortField(result) == Field(result, "port")
PortFromUser(result) == Field(result, "portFromUser")

\* if (result.retry) { return await this.tryTo...(command, false) }
\* return false
RetryOrReturn(i, c, h) ==
    IF c[i].result.retry
    THEN tryToFindRunningEditorAndExecuteCommand(i,
            [c EXCEPT ![i].detectPort = RetryDetectPort], h)
    ELSE ReturnFalse(i, c, h)

\* The prompt has returned result:
\* if (result.portFromUser) { await savePort(this.context, result.portFromUser) }
\* and then the lines that RetryOrReturn models.
handleResult(i, c, h, result) ==
    LET c1 == [c EXCEPT ![i].result = result]
        portFromUser == PortFromUser(result)
    IN IF Falsy(portFromUser)
       THEN RetryOrReturn(i, c1, h)
       ELSE /\ call' = [c1 EXCEPT ![i].pc = "save", ![i].saved = "user"]
            /\ hist' = [h EXCEPT ![i].writes = Append(@, portFromUser),
                                 ![i].replaced = cache]
            /\ cache' = savePort(cache, portFromUser)
            /\ lastWriter' = i

\* The promise of globalState.update resolves, and the lines after the
\* await savePort(...) that made the write run up to the next wait.
updateCompletes(i) ==
    /\ call[i].pc = "save"
    /\ IF call[i].saved = "user"
       THEN RetryOrReturn(i, call, hist)
       ELSE LET port == call[i].portOfRunningEditor
            IN IF ShouldAsk(port, call[i].showRunningDefoldEditorNotFoundWindow)
               THEN Continue(i, call, [hist EXCEPT ![i].prompts = @ + 1], "prompt")
               ELSE IF Falsy(port)
                    THEN ReturnFalse(i, call, hist)
                    ELSE Continue(i, call, hist, "checkRunning")
    /\ UNCHANGED <<running, envChanges, logFile, http>>

\* askToOpenDefoldEditorOrInputPort: the answer of
\* vscode.window.showInformationMessage(...), or its failure
showNotFoundPrompt(i) ==
    /\ call[i].pc = "prompt"
    /\ \/ \E answer \in Answers :
            CASE answer = "Open Defold" -> Continue(i, call, hist, "openDefold")
              [] answer = "Input Port" ->
                    Continue(i, call, [hist EXCEPT ![i].inputs = @ + 1], "askPort")
              [] OTHER -> handleResult(i, call, hist, doNotRetryBuildingProject)
       \/ /\ call' = Reject(i)
          /\ hist' = [hist EXCEPT ![i].promptFailed = TRUE,
                                  ![i].errorShown = Catches(AsyncFailure)]
          /\ UNCHANGED <<cache, lastWriter>>
    /\ UNCHANGED <<running, envChanges, logFile, http>>

\* case 'Open Defold': await openDefoldEditor('game.project', platform)
openDefold(i) ==
    /\ call[i].pc = "openDefold"
    /\ \/ handleResult(i, call, hist, doNotRetryBuildingProject)
       \/ /\ call' = Reject(i)
          /\ hist' = [hist EXCEPT ![i].promptFailed = TRUE,
                                  ![i].errorShown = Catches(AsyncFailure)]
          /\ UNCHANGED <<cache, lastWriter>>
    /\ UNCHANGED <<running, envChanges, logFile, http>>

\* case 'Input Port': const port = await askUserForPort(): the value of the
\* input box, or its failure
askUserForPort(i) ==
    /\ call[i].pc = "askPort"
    /\ \/ \E port \in PortInputs :
            /\ Falsy(port) \/ Len(hist[i].userPorts) < MaxRetries
            /\ handleResult(i, call,
                  [hist EXCEPT ![i].userPorts = IF Falsy(port) THEN @ ELSE Append(@, port)],
                  IF Falsy(port) THEN doNotRetryBuildingProject
                  ELSE [retry |-> TRUE, port |-> port])
       \/ /\ call' = Reject(i)
          /\ hist' = [hist EXCEPT ![i].promptFailed = TRUE,
                                  ![i].errorShown = Catches(AsyncFailure)]
          /\ UNCHANGED <<cache, lastWriter>>
    /\ UNCHANGED <<running, envChanges, logFile, http>>

\* ---------------------------------------------------------------- dispatch
\* const isRunning = await isDefoldEditorRunning(portOfRunningEditor): the
\* answer of the probe; when it is live, executeCommandInDefoldEditor is
\* called and sends the POST.
checkRunning(i) ==
    /\ call[i].pc = "checkRunning"
    /\ \E o \in GetOutcomes(call[i].portOfRunningEditor, running) :
         LET isRunning == isDefoldEditorRunning(o)
         IN /\ call' = IF isRunning
                       THEN [call EXCEPT ![i].pc = "post"]
                       ELSE [call EXCEPT ![i].ret = Returned(FALSE), ![i].pc = "done"]
            /\ hist' = [hist EXCEPT
                 ![i].probedLive = IF isRunning THEN @ \cup {call[i].portOfRunningEditor} ELSE @,
                 ![i].posted = IF isRunning THEN DispatchTarget(i) ELSE @,
                 ![i].posts = IF isRunning THEN @ + 1 ELSE @]
    /\ UNCHANGED <<cache, running, envChanges, logFile, lastWriter, http>>

\* return await executeCommandInDefoldEditor(portOfRunningEditor!, command):
\* the answer of the POST
postCommand(i) ==
    /\ call[i].pc = "post"
    /\ \E o \in PostOutcomes(hist[i].posted, running) :
         call' = [call EXCEPT ![i].ret = Returned(executeCommandInDefoldEditor(o)),
                              ![i].pc = "done"]
    /\ UNCHANGED <<hist, cache, running, envChanges, logFile, lastWriter, http>>

\* ------------------------------------------------------------- environment
\* An editor starts or stops listening on a port.
EditorStartsOrStops ==
    /\ envChanges < MaxEnvChanges
    /\ \E p \in Ports :
         running' = IF p \in running THEN running \ {p} ELSE running \cup {p}
    /\ envChanges' = envChanges + 1
    /\ UNCHANGED <<call, hist, cache, logFile, lastWriter, http>>

Next ==
    \/ \E i \in Procs, document \in Documents : onDidSaveTextDocument(i, document)
    \/ \E i \in Procs : sleep(i)
    \/ \E i \in Procs : hotReloadCommand(i)
    \/ \E i \in Procs, showWindow \in BOOLEAN : DefoldEditor_call(i, showWindow)
    \/ \E i \in Procs : getSavedPortOfRunningEditor(i)
    \/ \E i \in Procs : probeSavedPort(i)
    \/ \E i \in Procs : findRecentLogFile(i)
    \/ \E i \in Procs : openLogFile(i)
    \/ \E i \in Procs : readLogFile(i)
    \/ \E i \in Procs : scanLoop(i)
    \/ \E i \in Procs : updateCompletes(i)
    \/ \E i \in Procs : showNotFoundPrompt(i)
    \/ \E i \in Procs : openDefold(i)
    \/ \E i \in Procs : askUserForPort(i)
    \/ \E i \in Procs : checkRunning(i)
    \/ \E i \in Procs : postCommand(i)
    \/ EditorStartsOrStops

Spec == Init /\ [][Next]_vars


\* ------------------------------------------------- one HTTP request alone
\* The prober and the dispatcher followed through one request: the request
\* is issued, axios settles (a response of some status, or a throw), and the
\* function returns.
Commands == {"hot-reload", "build"}

InitHttp ==
    /\ call = [i \in Procs |-> InitCall]
    /\ hist = [i \in Procs |-> InitHist]
    /\ cache = Undefined
    /\ running = {}
    /\ envChanges = 0
    /\ logFile = NoLogFile
    /\ lastWriter = 0
    /\ http = NoHttp

\* axios.get(`${editorBaseUrl}:${port}/command/`, { timeout: 1500 })
axiosGet(port) ==
    /\ http.phase = "idle"
    /\ http' = [http EXCEPT !.phase = "requested", !.method = "GET", !.port = port]
    /\ UNCHANGED <<call, hist, cache, running, envChanges, logFile, lastWriter>>

\* axios.post(`${editorBaseUrl}:${editorPort}/command/${command}`, null, { timeout: 2000 })
axiosPost(port, command) ==
    /\ http.phase = "idle"
    /\ http' = [http EXCEPT !.phase = "requested", !.method = "POST", !.port = port,
                            !.command = command]
    /\ UNCHANGED <<call, hist, cache, running, envChanges, logFile, lastWriter>>

axiosSettles(outcome) ==
    /\ http.phase = "requested"
    /\ http' = [http EXCEPT !.phase = "settled", !.outcome = outcome]
    /\ UNCHANGED <<call, hist, cache, running, envChanges, logFile, lastWriter>>

httpReturns ==
    /\ http.phase = "settled"
    /\ http' = [http EXCEPT
         !.phase = "returned",
         !.returned = IF http.method = "GET"
                      THEN Returned(isDefoldEditorRunning(http.outcome))
                      ELSE Returned(executeCommandInDefoldEditor(http.outcome))]
    /\ UNCHANGED <<call, hist, cache, running, envChanges, logFile, lastWriter>>

NextHttp ==
    \/ \E port \in Ports : axiosGet(port)
    \/ \E port \in Ports, command \in Commands : axiosPost(port, command)
    \/ \E outcome \in Outcomes : axiosSettles(outcome)
    \/ httpReturns

SpecHttp == InitHttp /\ [][NextHttp]_vars


\* ------------------------------------------------- the log scanner alone
\* One flow run up to the return of extractEditorPortsFrom, over log files
\* whose lines carry any subset of the three markers and zero, one or two
\* substrings matching the local-url pattern.
ScanLines == {Line(markers, urls) :
                 markers \in SUBSET {ThreadMarker, SubsystemMarker, MsgMarker},
                 urls \in {<<>>, <<"9000">>, <<"9010">>, <<"9010", "9000">>}}
ScanLogFiles == {[found |-> TRUE, lines |-> l] : l \in SeqsUpTo(ScanLines, MaxLogLen)}

InitScan ==
    /\ call = [i \in Procs |-> InitCall]
    /\ hist = [i \in Procs |-> InitHist]
    /\ cache = Undefined
    /\ running = {}
    /\ envChanges = 0
    /\ logFile \in ScanLogFiles
    /\ lastWriter = 0
    /\ http = NoHttp

NextScan ==
    \/ \E showWindow \in BOOLEAN : DefoldEditor_call(1, showWindow)
    \/ getSavedPortOfRunningEditor(1)
    \/ findRecentLogFile(1)
    \/ openLogFile(1)
    \/ readLogFile(1)

SpecScan == InitScan /\ [][NextScan]_vars

\* ------------------------------------------------------------------ claims
Last(s) == s[Len(s)]
Done(i) == call[i].pc = "done"
\* The ports the log file announces, in file order.
Announced == PushedPorts(logFile.lines)
ScanPcs == {"findLog", "openLog", "readLog", "scanLoop"}

\* C1: every POST of a command goes to a port that a liveness probe of the
\* same invocation found live, and an invocation whose resolution ended
\* not-found (no port) issues no POST.
C1_PostOnlyToProbedLive ==
    \A i \in Procs :
        /\ hist[i].posted # Undefined =>
              /\ hist[i].posted \in hist[i].probedLive
              /\ hist[i].posted = call[i].portOfRunningEditor
        /\ Falsy(call[i].portOfRunningEditor) => hist[i].posted = Undefined

\* Two interleaved flows have each dispatched, to different ports.
C1_Witness ==
    \E i, j \in Procs :
        /\ hist[i].posted = "9010"
        /\ hist[j].posted = "9000"

\* C2 (as claimed): once the user has supplied at the prompt a port on which
\* an editor runs, the port is saved, resolution is re-invoked once, the
\* command is dispatched to that port and no second prompt is shown.
C2_ManualPortResolves ==
    \A i \in Procs :
        ( /\ Done(i)
          /\ Len(hist[i].userPorts) >= 1
          /\ hist[i].stale = Undefined
          /\ 1 \notin hist[i].cacheHit
          /\ envChanges = 0
          /\ hist[i].userPorts[1] \in running )
        => /\ \E k \in 1..Len(hist[i].writes) : hist[i].writes[k] = hist[i].userPorts[1]
           /\ hist[i].invocations = 2
           /\ hist[i].posted = hist[i].userPorts[1]
           /\ hist[i].prompts = 1

\* C3: the scan loop probes the announced ports latest announcement first and
\* stops at the first live one; the invocation resolves to that port (to none
\* when every probe failed), passes it to savePort, and the cache holds it
\* until the next write.
C3_LatestLivePortFromLog ==
    \A i \in Procs :
        LET probes == hist[i].scanProbes
            k == Len(probes)
            n == Len(Announced)
            resolved == IF k >= 1 /\ probes[k] THEN Announced[n + 1 - k] ELSE Undefined
        IN /\ k <= n
           /\ \A j \in 1..(k - 1) : ~probes[j]
           /\ hist[i].scanned =>
                 /\ (k >= 1 /\ probes[k]) \/ k = n
                 /\ hist[i].invocations = 1 => call[i].portOfRunningEditor = resolved
                 /\ Len(hist[i].writes) >= 1 => hist[i].writes[1] = resolved
                 /\ (Len(hist[i].writes) = 1 /\ lastWriter = i) => cache = resolved

\* File order 9000, 9010 with 9000 dead and 9010 live: resolved and cached 9010.
C3_Witness ==
    \E i \in Procs :
        /\ Announced = <<"9000", "9010">>
        /\ running = {"9010"}
        /\ hist[i].scanned
        /\ hist[i].stale = "9000"
        /\ call[i].portOfRunningEditor = "9010"
        /\ hist[i].writes = <<"9010">>
        /\ cache = "9010"

\* C4: an invocation whose cache lookup found the stored port live resolves
\* to that port, never locates or reads a log file, and writes the same port
\* back to the cache.
C4_LiveCachedPortSkipsLogs ==
    \A i \in Procs :
        hist[i].invocations \in hist[i].cacheHit =>
           /\ call[i].pc \notin ScanPcs
           /\ hist[i].scanInvocation # hist[i].invocations
           /\ call[i].portOfRunningEditor = call[i].savedPort
           /\ call[i].pc \in {"checkRunning", "post", "done"} =>
                 /\ Len(hist[i].writes) >= 1
                 /\ Last(hist[i].writes) = call[i].savedPort
           /\ hist[i].invocations = 1 => hist[i].locates = 0 /\ hist[i].scans = 0

\* A live cached port was used although a log file announcing ports exists.
C4_Witness ==
    \E i \in Procs :
        /\ 1 \in hist[i].cacheHit
        /\ Done(i)
        /\ call[i].savedPort = "9000"
        /\ hist[i].posted = "9000"
        /\ Announced = <<"9000", "9010">>
        /\ hist[i].locates = 0

\* C5: only the outermost invocation, which runs with log scanning allowed,
\* locates or reads a log file; every re-invocation runs with log scanning
\* disabled, so one call scans at most once.
C5_NoScanWhenDisabled ==
    \A i \in Procs :
        /\ call[i].pc \in ScanPcs => call[i].detectPort /\ hist[i].invocations = 1
        /\ hist[i].invocations >= 2 => ~call[i].detectPort
        /\ hist[i].scanInvocation \in {0, 1}
        /\ hist[i].locates <= 1
        /\ hist[i].scans <= 1

\* A re-invocation found the cache empty and has gone on to its cache write
\* without scanning again.
C5_Witness ==
    \E i \in Procs :
        /\ hist[i].invocations = 2
        /\ ~call[i].detectPort
        /\ call[i].savedPort = Empty
        /\ call[i].pc = "prompt"
        /\ hist[i].locates = 1
        /\ hist[i].scans = 1

\* The flow ended not-found through the interactive prompt.
EndedAtPrompt(i) ==
    /\ Done(i)
    /\ call[i].ret = "false"
    /\ call[i].showRunningDefoldEditorNotFoundWindow
    /\ Falsy(call[i].portOfRunningEditor)

\* C6 (as claimed): after a call whose cached port failed its probe and that
\* ended not-found at the prompt, the cache still holds the stale port.
C6_StalePortLeftInPlace ==
    \A i \in Procs :
        (EndedAtPrompt(i) /\ hist[i].stale # Undefined) => cache = hist[i].stale

\* C6 (amended): such a call has written absent over the stale port before
\* prompting, and the cache is absent afterwards unless another flow has
\* written it since.
C6_StalePortOverwritten ==
    \A i \in Procs :
        (EndedAtPrompt(i) /\ hist[i].stale # Undefined) =>
           /\ hist[i].writes[1] = Undefined
           /\ Last(hist[i].writes) = Undefined
           /\ lastWriter = i => cache = Undefined

C6_Witness ==
    \E i \in Procs :
        /\ EndedAtPrompt(i)
        /\ hist[i].stale = "9000"
        /\ hist[i].invocations = 1
        /\ lastWriter = i
        /\ cache = Undefined

\* C7: a flow with the not-found window disabled whose cache lookup and log
\* scan gave no port writes absent to the cache, shows no prompt and no input
\* box, posts nothing, is not re-invoked and, once the write has completed,
\* returns false.
C7_SilentNotFound ==
    \A i \in Procs :
        ( /\ ~call[i].showRunningDefoldEditorNotFoundWindow
          /\ Falsy(call[i].portOfRunningEditor)
          /\ Len(hist[i].writes) >= 1 )
        => /\ hist[i].writes = <<Undefined>>
           /\ lastWriter = i => cache = Undefined
           /\ hist[i].prompts = 0
           /\ hist[i].inputs = 0
           /\ hist[i].posted = Undefined
           /\ hist[i].invocations = 1
           /\ call[i].pc \in {"save", "done"}
           /\ call[i].pc = "save" => call[i].ret = "pending"
           /\ Done(i) => call[i].ret = "false"

\* Cache empty, no log file found, window disabled: false and cache absent.
C7_Witness ==
    \E i \in Procs :
        /\ hist[i].trigger = "call"
        /\ ~call[i].showRunningDefoldEditorNotFoundWindow
        /\ call[i].savedPort = Empty
        /\ ~logFile.found
        /\ hist[i].locates = 1
        /\ hist[i].writes = <<Undefined>>
        /\ call[i].ret = "false"
        /\ cache = Undefined

\* C8 (as claimed): when the prompt, the input box or the editor launch fails,
\* the error notification is shown and the call returns false.
C8_PromptFailureCaught ==
    \A i \in Procs :
        hist[i].promptFailed => hist[i].errorShown /\ call[i].ret = "false"

\* C9 (as claimed): every call that has completed returned a boolean.
C9_CallReturnsBoolean ==
    \A i \in Procs :
        (Done(i) /\ hist[i].invocations >= 1) => call[i].ret \in {"true", "false"}

\* C10: the prober and the dispatcher return true exactly for a response with
\* a status in 200..299, and false for every other status, network error and
\* timeout; they return nothing else.
C10_TrueIff2xx ==
    http.phase = "returned" =>
        /\ http.returned \in {"true", "false"}
        /\ http.returned = "true" <=>
              (http.outcome.kind = "response" /\ http.outcome.status \in 200..299)

\* A dispatch that timed out returned false.
C10_Witness ==
    /\ http.phase = "returned"
    /\ http.method = "POST"
    /\ http.outcome = Timeout
    /\ http.returned = "false"


\* A line that announces a port: all three markers and a local-url match.
Qualifies(line) ==
    /\ {ThreadMarker, SubsystemMarker, MsgMarker} \subseteq line.markers
    /\ line.urls # <<>>
QualifyingLines == {k \in 1..Len(logFile.lines) : Qualifies(logFile.lines[k])}
\* The j-th qualifying line counted from the end of the file.
FromEnd(j) == CHOOSE k \in QualifyingLines :
                 Cardinality({m \in QualifyingLines : m >= k}) = j

\* C11: extractEditorPortsFrom returns one port per line that has the thread
\* marker, the subsystem marker, the running-message marker and a local-url
\* match (the port of its first match), duplicates kept, last line first;
\* every other line contributes nothing.
C11_ScannerReturnsQualifyingPortsReversed ==
    \A i \in Procs :
        (hist[i].scanProbes = <<>> /\ (call[i].pc = "scanLoop" \/ hist[i].scanned)) =>
           /\ Len(call[i].foundPorts) = Cardinality(QualifyingLines)
           /\ \A j \in 1..Len(call[i].foundPorts) :
                 call[i].foundPorts[j] = logFile.lines[FromEnd(j)].urls[1]

\* A qualifying line for 9000, then a line without the thread marker, gives
\* exactly 9000.
C11_Witness ==
    \E i \in Procs :
        /\ call[i].pc = "scanLoop"
        /\ Len(logFile.lines) = 2
        /\ Qualifies(logFile.lines[1])
        /\ logFile.lines[2].markers = {SubsystemMarker, MsgMarker}
        /\ logFile.lines[2].urls = <<"9010">>
        /\ call[i].foundPorts = <<"9000">>


\* What C12 says of a step that follows a terminal choice: the flow is not
\* re-invoked, shows no prompt or input box, posts nothing, and returns false
\* when it ends.
TerminalStep(i) ==
    /\ call'[i].pc = "done" => call'[i].ret = "false"
    /\ hist'[i].invocations = hist[i].invocations
    /\ hist'[i].prompts = hist[i].prompts
    /\ hist'[i].inputs = hist[i].inputs
    /\ hist'[i].posted = Undefined

\* C12 (as claimed): choosing to launch a new editor, cancelling or
\* dismissing the prompt, or giving no port value is terminal: the flow goes
\* on only to return false, with no re-invocation, no further prompt or
\* input box and no POST.
C12_TerminalChoicesReturnFalse ==
    [][\A i \in Procs :
          /\ ( /\ call[i].pc = "prompt" /\ call'[i].pc # "prompt"
               /\ call'[i].pc # "askPort"
               /\ ~hist'[i].promptFailed )
             => call'[i].pc \in {"openDefold", "done"} /\ TerminalStep(i)
          /\ (call[i].pc = "openDefold" /\ call'[i].pc # "openDefold")
             => call'[i].pc = "done" /\ TerminalStep(i)
          /\ ( /\ call[i].pc = "askPort" /\ call'[i].pc # "askPort"
               /\ hist'[i].userPorts = hist[i].userPorts
               /\ ~hist'[i].promptFailed )
             => call'[i].pc = "done" /\ TerminalStep(i)]_vars


\* The documents of the model by extension, spelled out.
TsDocument == <<"a", ".", "t", "s">>
ScriptDocument == <<"a", ".", "s", "c", "r", "i", "p", "t">>
TextDocument == <<"a", ".", "t", "x", "t">>
PromptPcs == {"prompt", "openDefold", "askPort"}

\* C13: a save-triggered flow never shows the not-found prompt, the input
\* box or the error message; a save of an allow-listed file ends either with
\* the command posted to a port probed live or silently with nothing found,
\* and a save of a file outside the allow-list starts nothing.
C13_SaveDispatchesOrEndsSilently ==
    \A i \in Procs :
        hist[i].trigger = "save" =>
           /\ ~call[i].showRunningDefoldEditorNotFoundWindow
                 \/ hist[i].document = TextDocument
           /\ call[i].pc \notin PromptPcs
           /\ hist[i].prompts = 0
           /\ hist[i].inputs = 0
           /\ ~hist[i].errorShown
           /\ hist[i].userPorts = <<>>
           /\ hist[i].invocations <= 1
           /\ (hist[i].document # TextDocument /\ Done(i)) =>
                 \/ call[i].ret = "true" /\ hist[i].posted \in hist[i].probedLive
                 \/ call[i].ret = "false" /\ hist[i].posted = Undefined
           /\ hist[i].document = TextDocument =>
                 /\ Done(i)
                 /\ call[i].ret = "nocall"
                 /\ hist[i].invocations = 0
                 /\ hist[i].writes = <<>>
                 /\ hist[i].posted = Undefined
                 /\ hist[i].probedLive = {}

\* C14: a manually invoked hot-reload command runs the resolution with the
\* not-found window enabled, whatever save-triggered flows run beside it,
\* and every invocation of it whose cache lookup and log scan gave no port
\* shows the prompt before the call returns.
C14_ManualResolvesAndPrompts ==
    \A i \in Procs :
        hist[i].trigger = "manual" =>
           /\ call[i].showRunningDefoldEditorNotFoundWindow
           /\ Done(i) => hist[i].invocations >= 1
           /\ ( /\ hist[i].invocations >= 1
                /\ Len(hist[i].writes) = hist[i].invocations
                /\ Falsy(call[i].portOfRunningEditor) )
              => \/ call[i].pc = "save" /\ hist[i].prompts = hist[i].invocations - 1
                 \/ /\ call[i].pc \in {"prompt", "openDefold", "askPort", "done"}
                    /\ hist[i].prompts = hist[i].invocations

\* The flow has read, probed, written or posted something.
Acted(i) ==
    \/ hist[i].invocations >= 1
    \/ call[i].savedPort # Undefined
    \/ hist[i].probedLive # {}
    \/ hist[i].locates >= 1
    \/ hist[i].writes # <<>>
    \/ hist[i].posted # Undefined

\* The handler of flow i has made its call of editor.executeCommand.
ReachedExecuteCommand(i) ==
    /\ hist[i].trigger \in {"save", "manual"}
    /\ call[i].ret # "nocall"
    /\ call[i].pc \notin {"idle", "sleep"}

\* C15: for a save of a .ts file the delay has completed before the handler
\* makes its call into the editor object, so before any cache read, probe,
\* write or POST for that event; a save of another allow-listed file and a
\* manual command make the call with no delay step.
C15_TsSaveWaitsFirst ==
    \A i \in Procs :
        /\ call[i].pc = "sleep" =>
              hist[i].document = TsDocument /\ ~Acted(i) /\ ~hist[i].slept
        /\ (hist[i].document = TsDocument /\ ReachedExecuteCommand(i)) => hist[i].slept
        /\ (hist[i].document = TsDocument /\ Acted(i)) => hist[i].slept
        /\ (hist[i].trigger # "none" /\ hist[i].document # TsDocument) =>
              ~hist[i].slept /\ call[i].pc # "sleep"

\* A save of a.ts has slept and then made its call into the editor object; a
\* save of a.script has made the call without sleeping.
C15_Witness ==
    \E i, j \in Procs :
        /\ hist[i].document = TsDocument
        /\ hist[i].slept
        /\ ReachedExecuteCommand(i)
        /\ hist[j].document = ScriptDocument
        /\ ~hist[j].slept
        /\ ReachedExecuteCommand(j)

\* C16: getSavedPortOfRunningEditor returns a port only when that port is the
\* stored value and the probe made inside the same call found it live; it
\* returns absent when storage is empty or the probe fails; and it does not
\* write to storage: the read of line 94 leaves storage as it is whatever it
\* holds, storage is unchanged while the lookup waits for the read and for
\* its probe, and a write in the step in which the lookup returns is the
\* savePort of line 62, which stores what the lookup returned.
C16_GetReturnsOnlyProbedStoredPort ==
    [][\A i \in Procs :
          /\ hist'[i].invocations # hist[i].invocations =>
                /\ call'[i].pc = "getSaved"
                /\ call'[i].savedPort = IF cache = Undefined THEN Empty ELSE cache
                /\ cache' = cache
                /\ hist'[i].writes = hist[i].writes
          /\ (call[i].pc = "getSaved" /\ call'[i].pc # "getSaved") =>
                /\ Falsy(call[i].savedPort) =>
                      /\ call'[i].pc \in {"findLog", "save"}
                      /\ call'[i].portOfRunningEditor = Undefined
                      /\ hist'[i].cacheProbes = hist[i].cacheProbes
                /\ ~Falsy(call[i].savedPort) =>
                      /\ call'[i].pc = "probeSaved"
                      /\ hist'[i].cacheProbes = hist[i].cacheProbes + 1
          /\ (call[i].pc = "probeSaved" /\ call'[i].pc # "probeSaved") =>
                /\ call'[i].pc \in {"findLog", "save"}
                /\ call[i].savedPort \in running =>
                      /\ call'[i].portOfRunningEditor = call[i].savedPort
                      /\ call[i].savedPort \in hist'[i].probedLive
                /\ call[i].savedPort \notin running =>
                      call'[i].portOfRunningEditor = Undefined
          /\ (call[i].pc \in {"getSaved", "probeSaved"} /\ call'[i] # call[i]) =>
                /\ call'[i].savedPort = call[i].savedPort
                /\ call'[i].pc # "save" =>
                      cache' = cache /\ hist'[i].writes = hist[i].writes
                /\ call'[i].pc = "save" =>
                      /\ ~ShouldDetect(call'[i].portOfRunningEditor, call[i].detectPort)
                      /\ call'[i].saved = "port"
                      /\ hist'[i].writes =
                            Append(hist[i].writes, call'[i].portOfRunningEditor)
                      /\ cache' = call'[i].portOfRunningEditor]_vars

\* The lookup has just returned absent for the stored port 9000, whose probe
\* failed, and 9000 is still in storage.
C16_Witness ==
    \E i \in Procs :
        /\ call[i].pc = "findLog"
        /\ call[i].savedPort = "9000"
        /\ hist[i].stale = "9000"
        /\ call[i].portOfRunningEditor = Undefined
        /\ cache = "9000"
        /\ lastWriter = 0


\* Any step of flow i.
FlowStep(i) ==
    \/ \E document \in Documents : onDidSaveTextDocument(i, document)
    \/ sleep(i) \/ hotReloadCommand(i)
    \/ \E showWindow \in BOOLEAN : DefoldEditor_call(i, showWindow)
    \/ getSavedPortOfRunningEditor(i)
    \/ probeSavedPort(i)
    \/ findRecentLogFile(i) \/ openLogFile(i) \/ readLogFile(i) \/ scanLoop(i)
    \/ updateCompletes(i)
    \/ showNotFoundPrompt(i) \/ openDefold(i) \/ askUserForPort(i)
    \/ checkRunning(i) \/ postCommand(i)

\* Flow i has read the stored port and has not yet made the write of line 62
\* that follows the read.
BetweenReadAndWrite(i) ==
    call[i].pc \in {"getSaved", "probeSaved", "findLog", "openLog", "readLog", "scanLoop"}

\* C17: resolutions are not mutually exclusive, and the last write wins. No
\* resolution ever waits for another: a call that has not ended can step
\* whatever the other call is doing. A write stores the value passed to
\* savePort whatever storage holds and whoever wrote it, also when another
\* resolution wrote after this one read. So once any resolution has written,
\* the stored port is the value passed to whichever savePort ran last, and
\* after both calls have ended it is the port that resolution resolved to,
\* whatever the order in which the resolutions started or read the cache.
C17_LastWriteWins ==
    /\ [](\A i \in Procs : Done(i) \/ ENABLED FlowStep(i))
    /\ [](lastWriter # 0 =>
            /\ hist[lastWriter].writes # << >>
            /\ cache = Last(hist[lastWriter].writes))
    /\ []((lastWriter # 0 /\ \A i \in Procs : Done(i)) =>
            cache = call[lastWriter].portOfRunningEditor)
    /\ [][\A i \in Procs :
            Len(hist'[i].writes) > Len(hist[i].writes) =>
                /\ BetweenReadAndWrite(i) \/ call[i].pc \in PromptPcs
                /\ call'[i].pc = "save"
                /\ cache' = IF call'[i].saved = "user"
                            THEN Field(call'[i].result, "portFromUser")
                            ELSE call'[i].portOfRunningEditor
                /\ lastWriter' = i]_vars

\* One call read an empty cache on its re-invocation; the other call's write
\* of 9000 fell between that read and the write of line 62 that followed it,
\* which stored absent over the 9000: after both calls ended storage is
\* empty, the value of the write that ran last.
C17_Witness ==
    \E i, j \in Procs :
        /\ i # j
        /\ Done(i) /\ Done(j)
        /\ hist[i].invocations = 2
        /\ call[i].savedPort = Empty
        /\ hist[i].writes = << Undefined, Undefined >>
        /\ hist[i].replaced = "9000"
        /\ hist[j].writes = << "9000" >>
        /\ lastWriter = i
        /\ cache = Undefined


\* C18: the stored port is absent or a port that passed a liveness probe in
\* the resolution that wrote it, and no resolution writes a port it has not
\* itself probed live: every port a resolution has written is the write of
\* its current invocation and was probed live in that invocation.
C18_CacheHoldsOnlyProbedPorts ==
    /\ \A i \in Procs : \A k \in 1..Len(hist[i].writes) :
          hist[i].writes[k] # Undefined =>
              /\ k = Len(hist[i].writes)
              /\ k = hist[i].invocations
              /\ hist[i].writes[k] \in hist[i].probedLive
    /\ lastWriter # 0 =>
          \/ cache = Undefined
          \/ cache \in hist[lastWriter].probedLive

\* A resolution found the stored port 9000 dead, probed 9010 from the log
\* live and wrote it: storage holds 9010.
C18_Witness ==
    \E i \in Procs :
        /\ hist[i].stale = "9000"
        /\ hist[i].scanned
        /\ hist[i].writes = << "9010" >>
        /\ "9010" \in hist[i].probedLive
        /\ lastWriter = i
        /\ cache = "9010"


\* The latest announced port that is live, absent when there is none.
LatestLive ==
    LET live == {k \in 1..Len(Announced) : Announced[k] \in running}
    IN IF live = {} THEN Undefined
       ELSE Announced[CHOOSE k \in live : \A m \in live : m <= k]

\* What one resolution run alone resolves to, and stores, when storage holds
\* stored: the stored port when it is live, else the latest live port of the log.
SequentialResult(stored) == IF stored \in running THEN stored ELSE LatestLive

\* No editor has started or stopped, and every resolution that has started
\* has the not-found prompt suppressed.
StaticSuppressedOnly ==
    /\ envChanges = 0
    /\ \A j \in Procs :
          hist[j].invocations >= 1 => ~call[j].showRunningDefoldEditorNotFoundWindow

\* C19: while the live ports and the log do not change, interleaved
\* prompt-suppressed resolutions behave as if run one after another: every write
\* stores exactly what a resolution run alone on the current storage would
\* store, so a live stored port is never replaced, all resolutions resolve
\* to the same port, and storage ends holding that port.
C19_InterleavingMatchesSequential ==
    /\ [](StaticSuppressedOnly =>
            /\ \A i, j \in Procs :
                  (hist[i].writes # << >> /\ hist[j].writes # << >>) =>
                      hist[i].writes = hist[j].writes
            /\ lastWriter # 0 => hist[lastWriter].writes = << cache >>)
    /\ [][StaticSuppressedOnly' =>
            \A i \in Procs :
                hist'[i].writes # hist[i].writes =>
                    /\ hist'[i].writes = << cache' >>
                    /\ cache' = SequentialResult(cache)
                    /\ cache \in running => cache' = cache]_vars

\* Two prompt-suppressed resolutions interleaved with nothing changing: both
\* read the dead stored port 9000 before either wrote, both resolved 9010
\* from the log, and storage ends at 9010.
C19_Witness ==
    /\ StaticSuppressedOnly
    /\ \A i \in Procs :
          /\ Done(i)
          /\ hist[i].trigger = "call"
          /\ ~call[i].showRunningDefoldEditorNotFoundWindow
          /\ hist[i].stale = "9000"
          /\ hist[i].writes = << "9010" >>
    /\ cache = "9010"


\* How far a position is from the end of the call, in stages.
Stage(pc) ==
    CASE pc = "idle" -> 15
      [] pc = "sleep" -> 14
      [] pc = "getSaved" -> 13
      [] pc = "probeSaved" -> 12
      [] pc = "findLog" -> 11
      [] pc = "openLog" -> 10
      [] pc = "readLog" -> 9
      [] pc = "scanLoop" -> 8
      [] pc = "save" -> 7
      [] pc = "prompt" -> 6
      [] pc = "openDefold" -> 5
      [] pc = "askPort" -> 5
      [] pc = "checkRunning" -> 3
      [] pc = "post" -> 2
      [] pc = "done" -> 0

\* A measure of the work flow i has left: its stage, then the ports of the
\* scan loop still to probe.
Rank(i) == Stage(call[i].pc) * (Len(logFile.lines) + 1) + Len(call[i].foundPorts)

\* The not-found prompt is switched off for flow i.
FallbackDisabled(i) == ~call[i].showRunningDefoldEditorNotFoundWindow

\* C20: with the interactive fallback disabled a call runs to its end with
\* no prompt, no input box and no re-invocation, after at most one probe of
\* the stored port, one probe per port of the log, one probe before the
\* dispatch and one POST: every step lowers the work left and a call that has
\* not ended can step. The only step of any call that does not lower the
\* work left is the retry taken after the user supplied a port at the prompt.
C20_BoundedWorkWithoutFallback ==
    /\ [](\A i \in Procs : FallbackDisabled(i) =>
            /\ hist[i].invocations <= 1
            /\ hist[i].prompts = 0 /\ hist[i].inputs = 0 /\ hist[i].userPorts = << >>
            /\ hist[i].cacheProbes <= 1
            /\ Len(hist[i].scanProbes) <= Len(Announced)
            /\ hist[i].runProbes <= 1
            /\ hist[i].posts <= 1
            /\ Done(i) \/ ENABLED FlowStep(i))
    /\ [][\A i \in Procs :
            (call'[i] # call[i] \/ hist'[i] # hist[i]) =>
                \/ Rank(i)' < Rank(i)
                \/ /\ ~FallbackDisabled(i)
                   /\ call[i].pc = "askPort"
                   /\ hist'[i].invocations = hist[i].invocations + 1
                   /\ call'[i].result.retry
                   /\ Len(hist'[i].userPorts) = Len(hist[i].userPorts) + 1
                   /\ ~Falsy(Last(hist'[i].userPorts))
                   /\ Field(call'[i].result, "port") = Last(hist'[i].userPorts)]_vars

\* A call ran to its end with the fallback disabled after one
\* failed probe of the stored port, two probes of log ports, one probe before
\* the dispatch and one POST.
C20_Witness ==
    \E i \in Procs :
        /\ FallbackDisabled(i)
        /\ Done(i)
        /\ hist[i].cacheProbes = 1
        /\ hist[i].stale # Undefined
        /\ Len(hist[i].scanProbes) = 2
        /\ hist[i].runProbes = 1
        /\ hist[i].posts = 1
        /\ hist[i].invocations = 1

====
